---- MODULE Spec2Model ----
(***************************************************************************)
(* Model of natwest_account_fetcher.py: the NatWestAPIClient object, its   *)
(* operations and the driver main().  The remote server (and the requests  *)
(* library that talks to it) is the environment: every HTTP response is an *)
(* input drawn from a small set.                                           *)
(*                                                                         *)
(* Python values are encoded as sequences of one-character strings, so     *)
(* that '' and [] are both <<>>, and the values None / True / False /      *)
(* "key absent" are one-element sequences over reserved symbols.           *)
(***************************************************************************)
EXTENDS Integers, Sequences, FiniteSets, TLC

VARIABLES pc, accessToken, consentId, authCode, accounts, idx, calls,
          requests, fetches, output, exitCode, ccIssued, exIssued, probeIn,
          probeOut

vars == <<pc, accessToken, consentId, authCode, accounts, idx, calls,
          requests, fetches, output, exitCode, ccIssued, exIssued, probeIn,
          probeOut>>

-----------------------------------------------------------------------------
(* Bounds of the model *)

MaxAccounts == 2
MaxTxn == 6
MaxLimit == 5
MaxPieces == 6

-----------------------------------------------------------------------------
(* Python values *)

None == <<"None">>
PyTrue == <<"True">>
PyFalse == <<"False">>
\* a key that is missing from a JSON object or from the response headers
Absent == <<"Absent">>
\* a JSON null stored under a key that is present
JsonNull == <<"null">>
\* the exit status of a process that is still running
Running == -1
\* requests carrying no Authorization header
NoAuth == <<"NoAuth">>
\* the outcome of a call that raised instead of returning
Raised == <<"Raised">>

\* Python truthiness as used by `if not x` / `if x`: None, False, '' and []
Falsy(x) == x = None \/ x = PyFalse \/ x = <<>>

\* dict.get(key, default)
DictGet(v, default) == IF v = Absent THEN default ELSE v

-----------------------------------------------------------------------------
(* String operations used by authorize_consent *)

CodeEq == <<"c", "o", "d", "e", "=">>
Amp == <<"&">>

OccursAt(s, sep, i) ==
    /\ i >= 1
    /\ i + Len(sep) - 1 <= Len(s)
    /\ SubSeq(s, i, i + Len(sep) - 1) = sep

\* `sep in s`
Contains(s, sep) == \E i \in 1..Len(s) : OccursAt(s, sep, i)

\* 1-based index of the leftmost occurrence of sep in s, 0 when there is none
Find(s, sep) ==
    IF Contains(s, sep)
    THEN CHOOSE i \in 1..Len(s) :
            /\ OccursAt(s, sep, i)
            /\ \A j \in 1..(i - 1) : ~OccursAt(s, sep, j)
    ELSE 0

\* str.split(sep): the list of pieces of s between the occurrences of sep
RECURSIVE Split(_, _)
Split(s, sep) ==
    LET i == Find(s, sep) IN
    IF i = 0 THEN <<s>>
    ELSE <<SubSeq(s, 1, i - 1)>> \o Split(SubSeq(s, i + Len(sep), Len(s)), sep)

\* the same without the truncation at '&'
ExtractCodeNoAmp(s) == Split(s, CodeEq)[2]
\* s.split('code=')[1].split('&')[0]
ExtractCode(s) == Split(Split(s, CodeEq)[2], Amp)[1]

-----------------------------------------------------------------------------
(* HTTP responses: the inputs of the model *)

T1 == <<"T", "1">>
T2 == <<"T", "2">>
Tokens == {T1, T2}

ConsentIds == {<<"c", "1">>, <<>>}

AccountIds == {"a", "b"}
AccountLists == UNION {[1..n -> AccountIds] : n \in 0..MaxAccounts}

BalanceLists == {<<>>, <<"b1">>}

\* upstream Data.Transaction arrays seen by the driver: empty, and longer than
\* the limit of 5 used by display_account_details
DriverTxnLists == {<<>>, <<"x1", "x2", "x3", "x4", "x5", "x6">>}

\* "http_error": raise_for_status() raises HTTPError;
\* "transport_error": requests raises ConnectionError / Timeout / ...;
\* "not_json": response.json() raises requests.exceptions.JSONDecodeError.
\* All three are RequestException subclasses.
RequestExceptionKinds == {"http_error", "transport_error", "not_json"}

\* a 2xx response carrying JSON; "ok" is a JSON object, "not_object" is a 2xx
\* JSON document that is not an object (so that .get raises AttributeError)
JsonResponses(values) ==
    {[kind |-> "ok", data |-> d] : d \in values \cup {Absent}}
    \cup {[kind |-> k, data |-> Absent] : k \in RequestExceptionKinds \cup {"not_object"}}

\* the client-credentials response carries T1 (or no access_token); the
\* authorization-code response carries the same token, another one, or none
ClientTokenResponses == JsonResponses({T1})
TokenResponses == JsonResponses(Tokens)
ConsentResponses == JsonResponses(ConsentIds)
AccountsResponses == JsonResponses(AccountLists)
BalanceResponses == JsonResponses(BalanceLists)

\* Responses of the authorization endpoints
LocCode == <<"u", "?">> \o CodeEq \o <<"a", "b", "&", "s">>
LocNoCode == <<"u", "?", "s">>
LocEmptyCode == <<"u", "?">> \o CodeEq \o <<"&", "s">>
Locations == {LocCode, LocNoCode, LocEmptyCode}

RedirectStatus == {302, 303, 307, 308}
\* the statuses on which requests follows a Location header by itself
RequestsRedirectStati == {301, 302, 303, 307, 308}

JsonBodies ==
    {[json |-> "object", redirectUri |-> u] : u \in Locations \cup {Absent, JsonNull}}
    \cup {[json |-> j, redirectUri |-> Absent] : j \in {"not_json", "scalar", "array"}}

NoBody == [json |-> "not_json", redirectUri |-> Absent]

TransportError ==
    [kind |-> "transport_error", status |-> 0, location |-> Absent, body |-> NoBody]

AuthResponses ==
    {TransportError}
    \cup {[kind |-> "response", status |-> 200, location |-> Absent, body |-> b] :
             b \in JsonBodies}
    \cup {[kind |-> "response", status |-> st, location |-> l, body |-> NoBody] :
             st \in {301, 302}, l \in Locations \cup {Absent}}
    \cup {[kind |-> "response", status |-> 500, location |-> Absent, body |-> NoBody]}

\* requests follows a response by itself when it is a redirect with a Location
Followable(r) ==
    /\ r.kind = "response"
    /\ r.status \in RequestsRedirectStati
    /\ r.location # Absent

\* what the last hop of a followed redirect chain can be
FinalResponses == {r \in AuthResponses : ~Followable(r)}

-----------------------------------------------------------------------------
(* The operations of NatWestAPIClient.  Each gives the value returned (or  *)
(* Raised when an exception other than RequestException leaves the method),*)
(* and the new value of the session field it may assign.                   *)

\* a token operation that drops the stored token when the request fails
TokenOperationClearsOnError(resp, token) ==
    IF resp.kind = "ok"
    THEN [ret |-> PyTrue, token |-> DictGet(resp.data, None)]
    ELSE IF resp.kind \in RequestExceptionKinds
    THEN [ret |-> PyFalse, token |-> None]
    ELSE [ret |-> Raised, token |-> token]
\* lines 64-82 and 256-274: the body shared by the two token operations
TokenOperation(resp, token) ==
    IF resp.kind = "ok"
    THEN [ret |-> PyTrue, token |-> DictGet(resp.data, None)]
    ELSE IF resp.kind \in RequestExceptionKinds
    THEN [ret |-> PyFalse, token |-> token]
    ELSE [ret |-> Raised, token |-> token]

GetClientCredentialsToken(resp, token) == TokenOperation(resp, token)

\* the exchange with the store of access_token left out
ExchangeKeepsToken(resp, token) ==
    [ret |-> TokenOperation(resp, token).ret, token |-> token]
ExchangeAuthorizationCode(resp, token) == TokenOperation(resp, token)

CreateAccountConsent(resp, consent) ==
    IF resp.kind = "ok"
    THEN [ret |-> DictGet(resp.data, None), consent |-> DictGet(resp.data, None)]
    ELSE IF resp.kind \in RequestExceptionKinds
    THEN [ret |-> None, consent |-> consent]
    ELSE [ret |-> Raised, consent |-> consent]

\* requests.get(url) with the default allow_redirects=True: the response
\* handed back is the server's response unless that is a redirect with a
\* Location, in which case it is the last response of the followed chain
RequestsGet(r, final) == IF Followable(r) THEN final ELSE r

AuthorizeConsent(r1, r2, final) ==
    IF r1.kind # "response" THEN [ret |-> None, gets |-> 1]
    ELSE IF r1.status \notin RedirectStatus THEN [ret |-> None, gets |-> 1]
    ELSE
      LET location == DictGet(r1.location, <<>>) IN
      IF Contains(location, CodeEq)
      THEN [ret |-> ExtractCode(location), gets |-> 1]
      ELSE IF location = <<>>
      \* requests.get('') raises MissingSchema, a RequestException
      THEN [ret |-> None, gets |-> 1]
      ELSE
        LET response2 == RequestsGet(r2, final) IN
        IF response2.kind # "response" THEN [ret |-> None, gets |-> 2]
        ELSE IF response2.status = 200
        THEN
          IF response2.body.json = "not_json" THEN [ret |-> None, gets |-> 2]
          \* `'redirectUri' in json_response` on a JSON null, number or boolean
          ELSE IF response2.body.json = "scalar" THEN [ret |-> Raised, gets |-> 2]
          ELSE IF response2.body.json = "array" THEN [ret |-> None, gets |-> 2]
          ELSE IF response2.body.redirectUri = Absent THEN [ret |-> None, gets |-> 2]
          \* `'code=' in redirect_uri` on a value that is not a string
          ELSE IF response2.body.redirectUri = JsonNull THEN [ret |-> Raised, gets |-> 2]
          ELSE IF Contains(response2.body.redirectUri, CodeEq)
          THEN [ret |-> ExtractCode(response2.body.redirectUri), gets |-> 2]
          ELSE [ret |-> None, gets |-> 2]
        ELSE IF response2.status \in RedirectStatus
        THEN
          LET location2 == DictGet(response2.location, <<>>) IN
          IF Contains(location2, CodeEq)
          THEN [ret |-> ExtractCode(location2), gets |-> 2]
          ELSE [ret |-> None, gets |-> 2]
        ELSE [ret |-> None, gets |-> 2]

GetAccounts(resp) ==
    IF resp.kind = "ok" THEN DictGet(resp.data, <<>>)
    ELSE IF resp.kind \in RequestExceptionKinds THEN None
    ELSE Raised

GetAccountBalances(resp) ==
    IF resp.kind = "ok" THEN DictGet(resp.data, <<>>)
    ELSE IF resp.kind \in RequestExceptionKinds THEN None
    ELSE Raised

Min(a, b) == IF a <= b THEN a ELSE b
Max(a, b) == IF a >= b THEN a ELSE b

\* Python's xs[:limit]
PySliceOffByOne(xs, limit) ==
    IF limit >= 0 THEN SubSeq(xs, 1, Min(limit + 1, Len(xs)))
    ELSE SubSeq(xs, 1, Max(Len(xs) + limit, 0))
PySlice(xs, limit) ==
    IF limit >= 0 THEN SubSeq(xs, 1, Min(limit, Len(xs)))
    ELSE SubSeq(xs, 1, Max(Len(xs) + limit, 0))

GetAccountTransactions(resp, limit) ==
    IF resp.kind = "ok" THEN PySlice(DictGet(resp.data, <<>>), limit)
    ELSE IF resp.kind \in RequestExceptionKinds THEN None
    ELSE Raised

\* display_account_details passes limit=5
DisplayLimit == 5

-----------------------------------------------------------------------------
(* The driver main() *)

Req(op, bearer, arg) == [op |-> op, bearer |-> bearer, arg |-> arg]

\* a section of the console output for ACCOUNT #n
Block(n, account, kind, items) ==
    [n |-> n, account |-> account, block |-> kind, items |-> items]

\* the result of a per-account fetch of ACCOUNT #n
Fetch(n, op, ret) == [n |-> n, op |-> op, ret |-> ret]

\* a driver that never stops on a failed step
ProceedsAlways(ret) == TRUE
\* main() goes on after a step unless `not <result>` holds
Proceeds(ret) == ~Falsy(ret)

\* where main() stands after a step returned ret (or raised)
After(ret, next) ==
    IF ret = Raised THEN "crashed"
    ELSE IF Proceeds(ret) THEN next
    ELSE "exit1"

\* an uncaught exception and sys.exit(1) both end the process with status 1
ExitCodeAt(p) ==
    IF p \in {"crashed", "exit1"} THEN 1
    ELSE IF p = "exit0" THEN 0
    ELSE Running

\* `for idx, account in enumerate(accounts, 1)` from position i on
LoopAt(accts, i) ==
    IF accts = None THEN "crashed"
    ELSE IF i > Len(accts) THEN "exit0"
    ELSE "display_balances"

Init ==
    /\ pc = "import"
    /\ accessToken = None
    /\ consentId = None
    /\ authCode = None
    /\ accounts = None
    /\ idx = 0
    /\ calls = <<>>
    /\ requests = <<>>
    /\ fetches = <<>>
    /\ output = <<>>
    /\ exitCode = Running
    /\ ccIssued = None
    /\ exIssued = None
    /\ probeIn = <<>>
    /\ probeOut = <<>>

\* `from config import ...`: a missing config.py ends the process with 1
ImportConfig ==
    /\ pc = "import"
    /\ \E present \in BOOLEAN :
          /\ pc' = IF present THEN "step1" ELSE "exit1"
          /\ exitCode' = ExitCodeAt(pc')
    /\ UNCHANGED <<accessToken, consentId, authCode, accounts, idx, calls,
                   requests, fetches, output, ccIssued, exIssued, probeIn,
                   probeOut>>

Step1 ==
    /\ pc = "step1"
    /\ \E resp \in ClientTokenResponses :
          LET r == GetClientCredentialsToken(resp, accessToken) IN
          /\ requests' = Append(requests, Req("token_client_credentials", NoAuth, <<>>))
          /\ accessToken' = r.token
          /\ ccIssued' = IF resp.kind = "ok" THEN DictGet(resp.data, None) ELSE ccIssued
          /\ calls' = Append(calls, [op |-> "get_client_credentials_token", ret |-> r.ret])
          /\ pc' = After(r.ret, "step2")
          /\ exitCode' = ExitCodeAt(pc')
    /\ UNCHANGED <<consentId, authCode, accounts, idx, fetches, output, exIssued,
                   probeIn, probeOut>>

Step2 ==
    /\ pc = "step2"
    /\ \E resp \in ConsentResponses :
          LET r == CreateAccountConsent(resp, consentId) IN
          /\ requests' = Append(requests, Req("account_access_consents", accessToken, <<>>))
          /\ consentId' = r.consent
          /\ calls' = Append(calls, [op |-> "create_account_consent", ret |-> r.ret])
          /\ pc' = After(r.ret, "step3")
          /\ exitCode' = ExitCodeAt(pc')
    /\ UNCHANGED <<accessToken, authCode, accounts, idx, fetches, output, ccIssued,
                   exIssued, probeIn, probeOut>>

\* the requests authorize_consent issues: the /authorize GET and, when it gets
\* that far, the GET of the first Location
AuthorizeRequests(r, location) ==
    IF r.gets = 1 THEN <<Req("authorize", NoAuth, consentId)>>
    ELSE <<Req("authorize", NoAuth, consentId), Req("authorize_location", NoAuth, location)>>

Step3With(r1, r2, final) ==
    LET r == AuthorizeConsent(r1, r2, final) IN
    /\ pc = "step3"
    /\ requests' = requests \o AuthorizeRequests(r, r1.location)
    /\ authCode' = IF r.ret = Raised THEN authCode ELSE r.ret
    /\ calls' = Append(calls, [op |-> "authorize_consent", ret |-> r.ret])
    /\ pc' = After(r.ret, "step4")
    /\ exitCode' = ExitCodeAt(pc')
    /\ UNCHANGED <<accessToken, consentId, accounts, idx, fetches, output,
                   ccIssued, exIssued>>

Step3 ==
    /\ \E r1 \in AuthResponses, r2 \in AuthResponses, final \in FinalResponses :
          Step3With(r1, r2, final)
    /\ UNCHANGED <<probeIn, probeOut>>

Step4 ==
    /\ pc = "step4"
    /\ \E resp \in TokenResponses :
          LET r == ExchangeAuthorizationCode(resp, accessToken) IN
          /\ requests' = Append(requests, Req("token_authorization_code", NoAuth, authCode))
          /\ accessToken' = r.token
          /\ exIssued' = IF resp.kind = "ok" THEN DictGet(resp.data, None) ELSE exIssued
          /\ calls' = Append(calls, [op |-> "exchange_authorization_code", ret |-> r.ret])
          /\ pc' = After(r.ret, "step5")
          /\ exitCode' = ExitCodeAt(pc')
    /\ UNCHANGED <<consentId, authCode, accounts, idx, fetches, output, ccIssued,
                   probeIn, probeOut>>

Step5 ==
    /\ pc = "step5"
    /\ \E resp \in AccountsResponses :
          LET ret == GetAccounts(resp) IN
          /\ requests' = Append(requests, Req("accounts", accessToken, <<>>))
          /\ accounts' = IF ret = Raised THEN accounts ELSE ret
          /\ calls' = Append(calls, [op |-> "get_accounts", ret |-> ret])
          /\ pc' = After(ret, LoopAt(ret, 1))
          /\ idx' = IF pc' = "display_balances" THEN 1 ELSE idx
          /\ exitCode' = ExitCodeAt(pc')
    /\ UNCHANGED <<accessToken, consentId, authCode, fetches, output, ccIssued,
                   exIssued, probeIn, probeOut>>

-----------------------------------------------------------------------------
(* display_account_details: one iteration of the loop is the two fetches   *)
(* DisplayBalances and DisplayTransactions, in that order.                 *)

\* every iteration asking for the first account
AccountIdFirst(accts, i) == accts[1]
\* account_id = account.get('AccountId') of the account the loop is at
AccountIdAt(accts, i) == accts[i]

\* `if balances:` / `if transactions:`
SectionShown(fetched) == ~Falsy(fetched)

\* a loop that gives up at the first failed fetch
AfterFetchStopsOnNone(fetched, next) ==
    IF fetched = Raised THEN "crashed"
    ELSE IF fetched = None THEN "exit1"
    ELSE next
\* the fetches return None on RequestException and the loop goes on; any
\* other exception leaves display_account_details and main()
AfterFetch(fetched, next) == IF fetched = Raised THEN "crashed" ELSE next

DisplayBalances ==
    /\ pc = "display_balances"
    /\ \E resp \in BalanceResponses :
          LET account_id == AccountIdAt(accounts, idx)
              balances == GetAccountBalances(resp)
          IN
          /\ requests' = Append(requests, Req("balances", accessToken, account_id))
          /\ fetches' = Append(fetches, Fetch(idx, "balances", balances))
          /\ output' = output \o <<Block(idx, account_id, "identity", <<>>)>>
                          \o (IF balances # Raised /\ SectionShown(balances)
                              THEN <<Block(idx, account_id, "balances", balances)>>
                              ELSE <<>>)
          /\ pc' = AfterFetch(balances, "display_transactions")
          /\ exitCode' = ExitCodeAt(pc')
    /\ UNCHANGED <<accessToken, consentId, authCode, accounts, idx, calls,
                   ccIssued, exIssued, probeIn, probeOut>>

DisplayTransactions ==
    /\ pc = "display_transactions"
    /\ \E resp \in JsonResponses(DriverTxnLists) :
          LET account_id == AccountIdAt(accounts, idx)
              transactions == GetAccountTransactions(resp, DisplayLimit)
          IN
          /\ requests' = Append(requests, Req("transactions", accessToken, account_id))
          /\ fetches' = Append(fetches, Fetch(idx, "transactions", transactions))
          /\ output' = output
                          \o (IF transactions # Raised /\ SectionShown(transactions)
                              THEN <<Block(idx, account_id, "transactions", transactions)>>
                              ELSE <<>>)
          /\ pc' = AfterFetch(transactions, LoopAt(accounts, idx + 1))
          /\ idx' = IF pc' = "crashed" THEN idx ELSE idx + 1
          /\ exitCode' = ExitCodeAt(pc')
    /\ UNCHANGED <<accessToken, consentId, authCode, accounts, calls,
                   ccIssued, exIssued, probeIn, probeOut>>

Next ==
    \/ ImportConfig
    \/ Step1
    \/ Step2
    \/ Step3
    \/ Step4
    \/ Step5
    \/ DisplayBalances
    \/ DisplayTransactions

Spec == Init /\ [][Next]_vars

-----------------------------------------------------------------------------
(* authorize_consent on its own: the driver up to step 3, with the three   *)
(* responses the call consumed and its outcome kept in probeIn / probeOut  *)

Step3Probe ==
    \E r1 \in AuthResponses, r2 \in AuthResponses, final \in FinalResponses :
       /\ Step3With(r1, r2, final)
       /\ probeIn' = <<r1, r2, final>>
       /\ probeOut' = AuthorizeConsent(r1, r2, final).ret

NextAuth ==
    \/ ImportConfig
    \/ Step1
    \/ Step2
    \/ Step3Probe

SpecAuth == Init /\ [][NextAuth]_vars

-----------------------------------------------------------------------------
(* The code extraction of authorize_consent over many strings: the client  *)
(* stands before step 3 and the server puts the string probeIn either in   *)
(* the first Location or in the redirectUri of the JSON body.              *)

Pieces == {CodeEq, Amp, <<"a">>, <<"c", "o">>}

RECURSIVE Flatten(_)
Flatten(ps) == IF ps = <<>> THEN <<>> ELSE Head(ps) \o Flatten(Tail(ps))

Strings == {Flatten(ps) : ps \in UNION {[1..n -> Pieces] : n \in 0..MaxPieces}}

Redirect(l) == [kind |-> "response", status |-> 302, location |-> l, body |-> NoBody]

JsonRedirectUri(u) ==
    [kind |-> "response", status |-> 200, location |-> Absent,
     body |-> [json |-> "object", redirectUri |-> u]]

\* the client after step 1 stored T1 and step 2 stored consent c1
InitExtract ==
    /\ pc = "step3"
    /\ accessToken = GetClientCredentialsToken([kind |-> "ok", data |-> T1], None).token
    /\ consentId = CreateAccountConsent([kind |-> "ok", data |-> <<"c", "1">>], None).consent
    /\ authCode = None
    /\ accounts = None
    /\ idx = 0
    /\ calls = <<[op |-> "get_client_credentials_token", ret |-> PyTrue],
                 [op |-> "create_account_consent", ret |-> <<"c", "1">>]>>
    /\ requests = <<Req("token_client_credentials", NoAuth, <<>>),
                    Req("account_access_consents", T1, <<>>)>>
    /\ fetches = <<>>
    /\ output = <<>>
    /\ exitCode = Running
    /\ ccIssued = T1
    /\ exIssued = None
    /\ probeIn \in Strings
    /\ probeOut = <<>>

ExtractFromLocation ==
    /\ Step3With(Redirect(probeIn), TransportError, TransportError)
    /\ probeOut' = <<"location", authCode'>>
    /\ UNCHANGED probeIn

ExtractFromRedirectUri ==
    /\ Step3With(Redirect(LocNoCode), JsonRedirectUri(probeIn), TransportError)
    /\ probeOut' = <<"redirectUri", authCode'>>
    /\ UNCHANGED probeIn

NextExtract ==
    \/ ExtractFromLocation
    \/ ExtractFromRedirectUri

SpecExtract == InitExtract /\ [][NextExtract]_vars

-----------------------------------------------------------------------------
(* get_account_transactions on its own, over upstream arrays and limits    *)

TxnLists == UNION {[1..n -> {"x1", "x2"}] : n \in 0..MaxTxn}
Limits == (-1)..MaxLimit

InitTxn ==
    /\ pc = "get_account_transactions"
    /\ accessToken = None
    /\ consentId = None
    /\ authCode = None
    /\ accounts = None
    /\ idx = 0
    /\ calls = <<>>
    /\ requests = <<>>
    /\ fetches = <<>>
    /\ output = <<>>
    /\ exitCode = Running
    /\ ccIssued = None
    /\ exIssued = None
    /\ probeIn \in {[resp |-> r, limit |-> l] : r \in JsonResponses(TxnLists), l \in Limits}
    /\ probeOut = <<>>

CallGetAccountTransactions ==
    /\ pc = "get_account_transactions"
    /\ probeOut' = GetAccountTransactions(probeIn.resp, probeIn.limit)
    /\ requests' = Append(requests, Req("transactions", accessToken, "a"))
    /\ pc' = "returned"
    /\ UNCHANGED <<accessToken, consentId, authCode, accounts, idx, calls,
                   fetches, output, exitCode, ccIssued, exIssued, probeIn>>

NextTxn == CallGetAccountTransactions

SpecTxn == InitTxn /\ [][NextTxn]_vars

-----------------------------------------------------------------------------
(* The client object on its own: after construction, any operation may be  *)
(* called at any time with any response.  probeIn names the last call and  *)
(* the kind of response it met; the request log is not kept here.          *)

Called(op, kind) == [op |-> op, kind |-> kind]

InitClient ==
    /\ pc = "client"
    /\ accessToken = None
    /\ consentId = None
    /\ authCode = None
    /\ accounts = None
    /\ idx = 0
    /\ calls = <<>>
    /\ requests = <<>>
    /\ fetches = <<>>
    /\ output = <<>>
    /\ exitCode = Running
    /\ ccIssued = None
    /\ exIssued = None
    /\ probeIn = <<>>
    /\ probeOut = <<>>

CallGetClientCredentialsToken ==
    /\ pc = "client"
    /\ \E resp \in TokenResponses :
          LET r == GetClientCredentialsToken(resp, accessToken) IN
          /\ accessToken' = r.token
          /\ ccIssued' = IF resp.kind = "ok" THEN DictGet(resp.data, None) ELSE ccIssued
          /\ probeIn' = Called("get_client_credentials_token", resp.kind)
          /\ probeOut' = r.ret
    /\ UNCHANGED <<pc, consentId, authCode, accounts, idx, calls, requests,
                   fetches, output, exitCode, exIssued>>

CallCreateAccountConsent ==
    /\ pc = "client"
    /\ \E resp \in ConsentResponses :
          LET r == CreateAccountConsent(resp, consentId) IN
          /\ consentId' = r.consent
          /\ probeIn' = Called("create_account_consent", resp.kind)
          /\ probeOut' = r.ret
    /\ UNCHANGED <<pc, accessToken, authCode, accounts, idx, calls, requests,
                   fetches, output, exitCode, ccIssued, exIssued>>

\* the kind of the answer to the first GET of authorize_consent
FirstKind(r1) ==
    IF r1.kind # "response" THEN "transport_error"
    ELSE IF r1.status = 500 THEN "http_error"
    ELSE "ok"

\* the authorization code is returned to the caller, not stored in the client
CallAuthorizeConsent ==
    /\ pc = "client"
    /\ \E r1 \in AuthResponses, r2 \in AuthResponses :
          LET final == IF Followable(r2) THEN TransportError ELSE r2
              r == AuthorizeConsent(r1, r2, final)
          IN
          /\ probeIn' = Called("authorize_consent", FirstKind(r1))
          /\ probeOut' = r.ret
    /\ UNCHANGED <<pc, accessToken, consentId, authCode, accounts, idx, calls,
                   requests, fetches, output, exitCode, ccIssued, exIssued>>

CallExchangeAuthorizationCode ==
    /\ pc = "client"
    /\ \E resp \in TokenResponses :
          LET r == ExchangeAuthorizationCode(resp, accessToken) IN
          /\ accessToken' = r.token
          /\ exIssued' = IF resp.kind = "ok" THEN DictGet(resp.data, None) ELSE exIssued
          /\ probeIn' = Called("exchange_authorization_code", resp.kind)
          /\ probeOut' = r.ret
    /\ UNCHANGED <<pc, consentId, authCode, accounts, idx, calls, requests,
                   fetches, output, exitCode, ccIssued>>

\* the account list is returned to the caller, not stored in the client
CallGetAccounts ==
    /\ pc = "client"
    /\ \E resp \in AccountsResponses :
          /\ probeIn' = Called("get_accounts", resp.kind)
          /\ probeOut' = GetAccounts(resp)
    /\ UNCHANGED <<pc, accessToken, consentId, authCode, accounts, idx, calls,
                   requests, fetches, output, exitCode, ccIssued, exIssued>>

CallGetAccountBalances ==
    /\ pc = "client"
    /\ \E resp \in BalanceResponses :
          /\ probeIn' = Called("get_account_balances", resp.kind)
          /\ probeOut' = GetAccountBalances(resp)
    /\ UNCHANGED <<pc, accessToken, consentId, authCode, accounts, idx, calls,
                   requests, fetches, output, exitCode, ccIssued, exIssued>>

CallGetAccountTransactionsOfClient ==
    /\ pc = "client"
    /\ \E resp \in JsonResponses(DriverTxnLists) :
          /\ probeIn' = Called("get_account_transactions", resp.kind)
          /\ probeOut' = GetAccountTransactions(resp, DisplayLimit)
    /\ UNCHANGED <<pc, accessToken, consentId, authCode, accounts, idx, calls,
                   requests, fetches, output, exitCode, ccIssued, exIssued>>

\* the kinds of answer the fetches of display_account_details meet
FetchKinds == {"ok", "http_error"}

FetchResponse(kind, data) == [kind |-> kind, data |-> IF kind = "ok" THEN data ELSE Absent]

\* display_account_details(accts): probeOut is the number of fetches that
\* returned None
CallDisplayAccountDetails ==
    /\ pc = "client"
    /\ \E accts \in AccountLists :
       \E bal \in [1..Len(accts) -> FetchKinds], txn \in [1..Len(accts) -> FetchKinds] :
          LET noBalances ==
                 {n \in 1..Len(accts) :
                     GetAccountBalances(FetchResponse(bal[n], <<"b1">>)) = None}
              noTransactions ==
                 {n \in 1..Len(accts) :
                     GetAccountTransactions(FetchResponse(txn[n], <<"x1">>),
                                            DisplayLimit) = None}
          IN
          /\ probeIn' = Called("display_account_details", "ok")
          /\ probeOut' = <<Cardinality(noBalances) + Cardinality(noTransactions)>>
    /\ UNCHANGED <<pc, accessToken, consentId, authCode, accounts, idx, calls,
                   requests, fetches, output, exitCode, ccIssued, exIssued>>

NextClient ==
    \/ CallGetClientCredentialsToken
    \/ CallCreateAccountConsent
    \/ CallAuthorizeConsent
    \/ CallExchangeAuthorizationCode
    \/ CallGetAccounts
    \/ CallGetAccountBalances
    \/ CallGetAccountTransactionsOfClient
    \/ CallDisplayAccountDetails

SpecClient == InitClient /\ [][NextClient]_vars

-----------------------------------------------------------------------------
(* Properties *)

OperationOrder ==
    <<"get_client_credentials_token", "create_account_consent",
      "authorize_consent", "exchange_authorization_code", "get_accounts">>

\* an operation reported failure: False from the token operations, None from
\* the others
FailureResult(ret) == ret = None \/ ret = PyFalse

FetchOps == {"balances", "transactions"}

\* C1: main() invokes the five operations in the fixed order, each at most
\* once; the first operation that returns a failure/absent result ends the run
\* with exit code 1 and nothing is invoked after it; when get_accounts returns
\* None no balance or transaction request is issued.
C1_AbortOnFirstFailure ==
    /\ Len(calls) <= Len(OperationOrder)
    /\ \A i \in 1..Len(calls) : calls[i].op = OperationOrder[i]
    /\ \A i \in 1..Len(calls) :
          FailureResult(calls[i].ret) =>
             /\ i = Len(calls)
             /\ pc = "exit1"
             /\ exitCode = 1
    /\ (Len(calls) = 5 /\ calls[5].ret = None) =>
          \A j \in 1..Len(requests) : requests[j].op \notin FetchOps

\* get_accounts was reached, returned None, and the run ended there
C1_Witness ==
    /\ Len(calls) = 5
    /\ calls[5].ret = None
    /\ pc = "exit1"
    /\ requests[Len(requests)].op = "accounts"

\* C2: after the code exchange the client's accessToken is the access_token
\* the exchange response carried (not the client-credentials one): at the end
\* of a successful run and on every bearer request of step 5.
C2_TokenIsExchanged ==
    /\ pc \in {"step5", "display_balances", "display_transactions", "exit0"} =>
          accessToken = exIssued
    /\ \A j \in 1..Len(requests) :
          requests[j].op \in {"accounts"} \cup FetchOps =>
             requests[j].bearer = exIssued

\* a complete run in which the two token responses carried different tokens
C2_Witness ==
    /\ pc = "exit0"
    /\ ccIssued \in Tokens
    /\ exIssued \in Tokens
    /\ ccIssued # exIssued
    /\ accessToken = exIssued
    /\ Len(fetches) >= 2

\* the documented response shapes of authorize_consent, as predicates of
\* what the server answers to the first and to the second GET
RedirectWith(r) ==
    /\ r.kind = "response"
    /\ r.status \in RedirectStatus
    /\ r.location # Absent
    /\ Contains(r.location, CodeEq)

RedirectWithout(r) ==
    /\ r.kind = "response"
    /\ r.status \in RedirectStatus
    /\ r.location # Absent
    /\ ~Contains(r.location, CodeEq)

JsonWith(r) ==
    /\ r.kind = "response"
    /\ r.status = 200
    /\ r.body.json = "object"
    /\ r.body.redirectUri \notin {Absent, JsonNull}
    /\ Contains(r.body.redirectUri, CodeEq)

ShapeA(r1, r2) == RedirectWith(r1)
ShapeB(r1, r2) == RedirectWithout(r1) /\ JsonWith(r2)
ShapeC(r1, r2) == RedirectWithout(r1) /\ RedirectWith(r2)

\* C3: authorize_consent returns the extracted code under each of the three
\* documented shapes: (a) first redirect with code, (b) JSON redirectUri with
\* code in answer to the second GET, (c) a redirect with code in answer to the
\* second GET.
C3_ThreeShapes ==
    probeIn # <<>> =>
       LET r1 == probeIn[1]
           r2 == probeIn[2]
       IN
       /\ ShapeA(r1, r2) => probeOut = ExtractCode(r1.location)
       /\ ShapeB(r1, r2) => probeOut = ExtractCode(r2.body.redirectUri)
       /\ ShapeC(r1, r2) => probeOut = ExtractCode(r2.location)

\* shapes (a) and (b) alone
C3_ShapesAB ==
    probeIn # <<>> =>
       LET r1 == probeIn[1]
           r2 == probeIn[2]
       IN
       /\ ShapeA(r1, r2) => probeOut = ExtractCode(r1.location)
       /\ ShapeB(r1, r2) => probeOut = ExtractCode(r2.body.redirectUri)

\* C4: for every response that is none of the three documented shapes,
\* authorize_consent returns None: neither a code nor a propagated exception.
C4_OtherShapesAbsent ==
    probeIn # <<>> =>
       LET r1 == probeIn[1]
           r2 == probeIn[2]
       IN
       (~ShapeA(r1, r2) /\ ~ShapeB(r1, r2) /\ ~ShapeC(r1, r2)) => probeOut = None

\* the same, leaving out the answers to the second GET that requests follows
\* by itself and the JSON documents the membership tests raise on
C4_OtherShapesAbsentNoRaise ==
    probeIn # <<>> =>
       LET r1 == probeIn[1]
           r2 == probeIn[2]
       IN
       (/\ ~ShapeA(r1, r2) /\ ~ShapeB(r1, r2) /\ ~ShapeC(r1, r2)
        /\ ~Followable(r2)
        /\ r2.body.json # "scalar"
        /\ r2.body.redirectUri # JsonNull) => probeOut = None

\* the position right after the leftmost 'code=' of s
AfterFirstCode(s) == Find(s, CodeEq) + Len(CodeEq)

\* C5 as stated: on a string containing 'code=' the extraction yields exactly
\* the characters between the first 'code=' and the next '&' after it, or the
\* end of the string when there is none.
C5_UpToNextAmp ==
    (probeOut # <<>> /\ Contains(probeIn, CodeEq)) =>
       LET s == probeIn
           out == probeOut[2]
           start == AfterFirstCode(s)
           stop == start + Len(out)
       IN
       /\ out # None
       /\ stop - 1 <= Len(s)
       /\ SubSeq(s, start, stop - 1) = out
       /\ \A k \in 1..Len(out) : out[k] # "&"
       /\ (stop = Len(s) + 1 \/ s[stop] = "&")

\* C5 (amended): on a string containing 'code=' the extraction yields exactly
\* the characters between the first 'code=' and whichever comes first after
\* it: the next '&', the next 'code=', or the end of the string; both at the
\* first Location and at the JSON redirectUri.
C5_UpToNextAmpOrCode ==
    (probeOut # <<>> /\ Contains(probeIn, CodeEq)) =>
       LET s == probeIn
           out == probeOut[2]
           start == AfterFirstCode(s)
           stop == start + Len(out)
       IN
       /\ out # None
       /\ stop - 1 <= Len(s)
       /\ SubSeq(s, start, stop - 1) = out
       /\ \A k \in 1..Len(out) : out[k] # "&"
       /\ ~Contains(out, CodeEq)
       /\ (stop = Len(s) + 1 \/ s[stop] = "&" \/ OccursAt(s, CodeEq, stop))

\* 'a&code=a&a' arrived as the redirectUri and 'a' came out
C5_Witness ==
    /\ probeIn = <<"a", "&">> \o CodeEq \o <<"a", "&", "a">>
    /\ probeOut = <<"redirectUri", <<"a">>>>
    /\ pc = "step4"

\* a failed step: a False/None result or an exception, or an empty result of
\* steps 2 and 3; the empty list of get_accounts is a successful result
StepFailed(c) ==
    \/ c.ret \in {None, PyFalse, Raised}
    \/ (c.op # "get_accounts" /\ c.ret = <<>>)

AllFiveSucceeded ==
    /\ Len(calls) = 5
    /\ \A i \in 1..5 : ~StepFailed(calls[i])

\* C6: the exit code is 0 whenever all five steps succeed, an empty or absent
\* Data.Account included, and 1 only when the configuration is missing or one
\* of the five steps fails.
C6_ExitCodes ==
    /\ AllFiveSucceeded => exitCode # 1
    /\ (pc = "exit1") =>
          \/ calls = <<>>
          \/ StepFailed(calls[Len(calls)])

\* C7: a bearer-authenticated operation or the code exchange is only ever
\* invoked with a present accessToken: a token response without access_token
\* makes the token operation fail and the run stop.
C7_TokenPresent ==
    /\ pc \in {"step2", "step3", "step4", "step5",
               "display_balances", "display_transactions"} => accessToken # None
    /\ \A j \in 1..Len(requests) :
          requests[j].op \in {"account_access_consents", "accounts"} \cup FetchOps =>
             requests[j].bearer # None

HasBlock(n, kind) ==
    \E k \in 1..Len(output) : output[k].n = n /\ output[k].block = kind

Fetched(n, op) ==
    \E k \in 1..Len(fetches) : fetches[k].n = n /\ fetches[k].op = op

FetchRet(n, op) ==
    fetches[CHOOSE k \in 1..Len(fetches) : fetches[k].n = n /\ fetches[k].op = op].ret

\* both fetches of ACCOUNT #n returned (a list or None)
Completed(n) ==
    /\ Fetched(n, "balances")
    /\ Fetched(n, "transactions")
    /\ FetchRet(n, "balances") # Raised
    /\ FetchRet(n, "transactions") # Raised

NoFetchRaised == \A k \in 1..Len(fetches) : fetches[k].ret # Raised

\* a failed fetch neither ends the loop nor changes the exit code
FetchFailuresTolerated ==
    (fetches # <<>> /\ NoFetchRaised) =>
       /\ pc \in {"display_balances", "display_transactions", "exit0"}
       /\ exitCode # 1
       /\ pc = "exit0" => \A n \in 1..Len(accounts) : Completed(n) /\ HasBlock(n, "identity")

\* C8 as stated: an account whose balance fetch failed and whose transaction
\* fetch succeeded shows identity and transactions blocks and no balances
\* block, and symmetrically; later accounts are processed and the exit code is
\* not changed.
C8_FailedFetchOmitsOnlyItsBlock ==
    /\ \A n \in 1..idx :
          Completed(n) =>
             LET bal == FetchRet(n, "balances")
                 txn == FetchRet(n, "transactions")
             IN
             /\ (bal = None /\ txn # None) =>
                   /\ HasBlock(n, "identity")
                   /\ HasBlock(n, "transactions")
                   /\ ~HasBlock(n, "balances")
             /\ (txn = None /\ bal # None) =>
                   /\ HasBlock(n, "identity")
                   /\ HasBlock(n, "balances")
                   /\ ~HasBlock(n, "transactions")
    /\ FetchFailuresTolerated

\* C8 (amended): the block of the fetch that succeeded is shown when the list
\* it returned is not empty (an empty list prints no block); the block of the
\* failed fetch is omitted, identity is shown, later accounts are processed
\* and the exit code is not changed.
C8_FailedFetchOmitsItsBlock ==
    /\ \A n \in 1..idx :
          Completed(n) =>
             LET bal == FetchRet(n, "balances")
                 txn == FetchRet(n, "transactions")
             IN
             /\ (bal = None /\ txn # None) =>
                   /\ HasBlock(n, "identity")
                   /\ HasBlock(n, "transactions") <=> txn # <<>>
                   /\ ~HasBlock(n, "balances")
             /\ (txn = None /\ bal # None) =>
                   /\ HasBlock(n, "identity")
                   /\ HasBlock(n, "balances") <=> bal # <<>>
                   /\ ~HasBlock(n, "transactions")
    /\ FetchFailuresTolerated

\* two accounts, the first without balances but with transactions shown, the
\* second processed, exit code 0
C8_Witness ==
    /\ pc = "exit0"
    /\ exitCode = 0
    /\ Len(accounts) = 2
    /\ Completed(1)
    /\ FetchRet(1, "balances") = None
    /\ Len(FetchRet(1, "transactions")) = DisplayLimit
    /\ HasBlock(1, "transactions")
    /\ ~HasBlock(1, "balances")
    /\ Completed(2)
    /\ HasBlock(2, "identity")

\* C9: on a 2xx response with upstream array T and limit L >= 0 the result is
\* the first min(L, len(T)) elements of T in order; an absent Data.Transaction
\* gives the empty list; a non-2xx response or a transport error gives None.
C9_FirstN ==
    pc = "returned" =>
       LET resp == probeIn.resp
           L == probeIn.limit
           T == IF resp.data = Absent THEN <<>> ELSE resp.data
       IN
       /\ (resp.kind = "ok" /\ L >= 0) =>
             /\ Len(probeOut) = (IF L <= Len(T) THEN L ELSE Len(T))
             /\ \A k \in 1..Len(probeOut) : probeOut[k] = T[k]
       /\ (resp.kind = "ok" /\ resp.data = Absent /\ L >= 0) => probeOut = <<>>
       /\ resp.kind \in {"http_error", "transport_error"} => probeOut = None

\* six upstream transactions, limit 5, five returned
C9_Witness ==
    /\ pc = "returned"
    /\ probeIn.resp.kind = "ok"
    /\ probeIn.resp.data = <<"x1", "x2", "x2", "x1", "x1", "x2">>
    /\ probeIn.limit = 5
    /\ probeOut = <<"x1", "x2", "x2", "x1", "x1">>

\* the requests display_account_details has issued so far
DisplayRequests == SelectSeq(requests, LAMBDA r : r.op \in FetchOps)

\* C10: the requests of display_account_details are balances(a1),
\* transactions(a1), ..., balances(an), transactions(an): one of each kind per
\* account, in list order, none repeated, whatever failed.
C10_RequestSequence ==
    IF accounts = None THEN DisplayRequests = <<>>
    ELSE
      LET reqs == DisplayRequests IN
      /\ Len(reqs) <= 2 * Len(accounts)
      /\ \A k \in 1..Len(reqs) :
            /\ reqs[k].op = (IF k % 2 = 1 THEN "balances" ELSE "transactions")
            /\ reqs[k].arg = accounts[(k + 1) \div 2]
      /\ pc = "exit0" => Len(reqs) = 2 * Len(accounts)

\* two different accounts, a failed fetch on the first, all four requests made
C10_Witness ==
    /\ pc = "exit0"
    /\ Len(accounts) = 2
    /\ accounts[1] # accounts[2]
    /\ FetchRet(1, "balances") = None
    /\ FetchRet(1, "transactions") = None
    /\ Len(DisplayRequests) = 4

TokenOwners == {"get_client_credentials_token", "exchange_authorization_code"}

\* a non-2xx answer or a transport error
ErrorKinds == {"http_error", "transport_error"}

\* C11: accessToken is assigned only by get_client_credentials_token and
\* exchange_authorization_code, consentId only by create_account_consent; an
\* operation that meets a non-2xx answer or a transport error leaves both as
\* they were; the other operations never change either.
C11_SessionFrame ==
    [][ /\ accessToken' # accessToken =>
             /\ probeIn'.op \in TokenOwners
             /\ probeIn'.kind \notin ErrorKinds
        /\ consentId' # consentId =>
             /\ probeIn'.op = "create_account_consent"
             /\ probeIn'.kind \notin ErrorKinds
      ]_vars

\* the code exchange met an error while the client held the client-credentials
\* token T1 and a consent: both are still there
C11_Witness ==
    /\ probeIn # <<>>
    /\ probeIn.op = "exchange_authorization_code"
    /\ probeIn.kind \in ErrorKinds
    /\ ccIssued = T1
    /\ exIssued = None
    /\ accessToken = T1
    /\ consentId = <<"c", "1">>

====
